---- MODULE Spec2Model ----
(***************************************************************************)
(* A model of network-maps/nmap-to-drawio.py: the three Nmap parsers and   *)
(* their format dispatch, the merge of Host records by address, the        *)
(* OS-guess update rule and the emission order of build_drawio.            *)
(*                                                                         *)
(* Python values are represented as follows.                               *)
(*   - Optional[str] None is the string None, distinct from "".            *)
(*   - Optional[int] None is NoAcc, a value outside the accuracies.        *)
(*   - a port descriptor string "<port>/<proto> <text>" is the record      *)
(*     [port, proto, text]; two descriptors are equal strings exactly when *)
(*     the records are equal (port is digits, proto has no space or slash).*)
(*   - the dict by_ip is a sequence of [key, val] pairs in insertion order.*)
(***************************************************************************)
EXTENDS Integers, Sequences, FiniteSets, TLC

VARIABLES
    \* merge_hosts_by_ip
    m_in,       \* the records of the argument `hosts` iterated so far
    by_ip,      \* the dict by_ip
    m_pc,       \* "loop" | "done" | "again"
    m_out,      \* the list returned by merge_hosts_by_ip(hosts)
    m_out2,     \* the list returned by merging m_out once more
    \* OS-guess update on one host
    o_pc,       \* "fresh" | "set"
    o_prev,     \* the host before the last update
    o_cand,     \* the last candidate <<guess, acc>>
    o_cur,      \* the host as updated by _maybe_set_os
    o_inl,      \* the same host as updated by the rule inlined in the merge
    \* parse_nmap
    text,       \* the input text
    p_pc,       \* "start" | "xml" | "grepable" | "normal" | "done"
    p_i,        \* index of the next line (or host element) to read
    p_hosts,    \* the list `hosts` of the running parser
    p_current,  \* parse_nmap_normal's `current`: <<>> for None, else <<host>>
    p_used,     \* the parser whose result parse_nmap returned
    p_result,   \* the list returned by parse_nmap
    \* build_drawio
    d_n,        \* n = len(hosts)
    d_hub,      \* add_network_node
    d_ph,       \* position in the function: 0 before it runs, else an index
                \* of PhaseOrder
    d_i,        \* loop index i of the running loop
    next_id,    \* the counter next_id
    branding_id,
    network_id, \* 0 for None
    host_id_map,
    cells,      \* the children of the document root, in emission order
    \* infer_device_type
    c_os,       \* the keywords that (host.os_guess or "").lower() contains
    c_ports,    \* host.ports
    c_pc,       \* "call" | "done"
    c_type,     \* the returned device type
    \* compute_layout and the page size of build_drawio
    l_n,        \* the host count n
    l_hub,      \* add_network_node
    l_pc,       \* "call" | "returned" | "done" | "placed"
    l_geo,      \* the tuple returned by compute_layout(n)
    l_canvas,   \* width, height, pageWidth, pageHeight of build_drawio
    l_place,    \* per host index: x, y as computed and the emitted geometry
    l_hubgeo,   \* the emitted geometry of the hub cell: <<>> without hub
    \* main
    x_pc,       \* "parse" | "sort" | "exit"
    x_sort,     \* args.sort
    x_hosts,    \* the list `hosts` of main
    x_exit,     \* the exit status: Running before main ends
    x_built,    \* build_drawio has been called
    x_written,  \* the output file has been written
    \* merge_hosts_by_ip on objects: Host objects and list objects by identity
    hp_objs,    \* Host objects: reference -> fields, ports a list reference
    hp_lists,   \* list objects: reference -> the elements
    hp_in,      \* the argument `hosts`: references to Host objects
    hp_vals,    \* the value of each argument record when the call started
    hp_dict,    \* by_ip: pairs [key, ref]
    hp_i,       \* index of the next element of `hosts`
    hp_pc,      \* "loop" | "done"
    hp_out      \* the returned list: references to Host objects

merge_vars == <<m_in, by_ip, m_pc, m_out, m_out2>>
os_vars    == <<o_pc, o_prev, o_cand, o_cur, o_inl>>
parse_vars == <<text, p_pc, p_i, p_hosts, p_current, p_used, p_result>>
draw_vars  == <<d_n, d_hub, d_ph, d_i, next_id, branding_id, network_id,
                host_id_map, cells>>
class_vars  == <<c_os, c_ports, c_pc, c_type>>
layout_vars == <<l_n, l_hub, l_pc, l_geo, l_canvas, l_place, l_hubgeo>>
main_vars   == <<x_pc, x_sort, x_hosts, x_exit, x_built, x_written>>
heap_vars   == <<hp_objs, hp_lists, hp_in, hp_vals, hp_dict, hp_i, hp_pc, hp_out>>
ext_vars    == <<class_vars, layout_vars, main_vars, heap_vars>>
vars       == <<merge_vars, os_vars, parse_vars, draw_vars, ext_vars>>

-----------------------------------------------------------------------------
(* Python values *)

None  == "None"
NoAcc == -1

\* the exit status of a process that has not ended
Running == -1

\* Python truthiness of an Optional[str]
Truthy(s) == s # None /\ s # ""

Range(s) == {s[i] : i \in 1..Len(s)}

NoDuplicates(s) == \A i, j \in 1..Len(s) : i # j => s[i] # s[j]

\* class Host
Host(ip, name, ports, os_guess, os_accuracy) ==
    [ip |-> ip, name |-> name, ports |-> ports,
     os_guess |-> os_guess, os_accuracy |-> os_accuracy]

\* the "<port>/<proto>" prefix of a descriptor
Prefix(d) == <<d.port, d.proto>>

-----------------------------------------------------------------------------
(* Bounds and input domains *)

MaxHosts == 3

Ip1 == "10.0.0.1"
Ip2 == "10.0.0.2"
Ips == {Ip1, Ip2}

P_http   == [port |-> "80", proto |-> "tcp", text |-> "http"]
P_apache == [port |-> "80", proto |-> "tcp", text |-> "http Apache"]

\* Host records handed to merge_hosts_by_ip: for each address the bare
\* record, and records that vary the name, the ports or the OS fields.
NameRecords ==
    {Host(ip, n, <<>>, None, NoAcc) : ip \in Ips, n \in {"", "web", "db"}}
PortRecords ==
    {Host(ip, None, ps, None, NoAcc) : ip \in Ips,
        ps \in {<<P_http>>, <<P_http, P_http>>, <<P_apache, P_http>>}}
OsRecords ==
    {Host(ip, None, <<>>, os[1], os[2]) : ip \in Ips,
        os \in {<<None, NoAcc>>, <<"Linux", NoAcc>>, <<"Linux", 80>>,
                <<"Windows", 80>>, <<"Windows", 95>>, <<None, 95>>}}
HostRecords == NameRecords \cup PortRecords \cup OsRecords

-----------------------------------------------------------------------------
(* _maybe_set_os *)

MaybeSetOsGe(current, guess, acc) ==
    IF ~Truthy(guess) THEN current
    ELSE IF current.os_guess = None
         THEN [current EXCEPT !.os_guess = guess, !.os_accuracy = acc]
    ELSE IF acc # NoAcc /\ (current.os_accuracy = NoAcc \/ acc >= current.os_accuracy)
         THEN [current EXCEPT !.os_guess = guess, !.os_accuracy = acc]
    ELSE current

MaybeSetOs(current, guess, acc) ==
    IF ~Truthy(guess) THEN current
    ELSE IF current.os_guess = None
         THEN [current EXCEPT !.os_guess = guess, !.os_accuracy = acc]
    ELSE IF acc # NoAcc /\ (current.os_accuracy = NoAcc \/ acc > current.os_accuracy)
         THEN [current EXCEPT !.os_guess = guess, !.os_accuracy = acc]
    ELSE current

-----------------------------------------------------------------------------
(* merge_hosts_by_ip *)

\* the key under which a record is filed in by_ip
MergeKeyIpName(h) == <<h.ip, h.name>>

MergeKey(h) == <<h.ip>>

DictHas(d, k) == \E i \in 1..Len(d) : d[i].key = k

DictIndex(d, k) == CHOOSE i \in 1..Len(d) : d[i].key = k

\* list(by_ip.values())
DictValuesReversed(d) == [i \in 1..Len(d) |-> d[Len(d) + 1 - i].val]

DictValues(d) == [i \in 1..Len(d) |-> d[i].val]

\* first occurrence: a new Host with a copy of the ports list
MergeSeed(h) == Host(h.ip, h.name, h.ports, h.os_guess, h.os_accuracy)

\* later occurrence, name
MergeName(existing, h) ==
    IF ~Truthy(existing.name) /\ Truthy(h.name)
    THEN [existing EXCEPT !.name = h.name]
    ELSE existing

\* later occurrence, OS guess
MergeOs(existing, h) ==
    IF Truthy(h.os_guess)
    THEN IF existing.os_guess = None
         THEN [existing EXCEPT !.os_guess = h.os_guess,
                               !.os_accuracy = h.os_accuracy]
         ELSE IF h.os_accuracy # NoAcc
                 /\ (existing.os_accuracy = NoAcc
                     \/ h.os_accuracy > existing.os_accuracy)
              THEN [existing EXCEPT !.os_guess = h.os_guess,
                                    !.os_accuracy = h.os_accuracy]
              ELSE existing
    ELSE existing

\* later occurrence, ports appended without the membership test
MergePortsAppendAll(ports, incoming) == ports \o incoming

\* later occurrence, ports
RECURSIVE MergePorts(_, _)
MergePorts(ports, incoming) ==
    IF incoming = <<>> THEN ports
    ELSE MergePorts(IF Head(incoming) \in Range(ports)
                    THEN ports
                    ELSE Append(ports, Head(incoming)),
                    Tail(incoming))

MergeExisting(existing, h) ==
    LET named == MergeName(existing, h)
        osed  == MergeOs(named, h)
    IN  [osed EXCEPT !.ports = MergePorts(osed.ports, h.ports)]

\* a later occurrence that re-files the record at the end of the dict
MergeIterMoveToEnd(d, h) ==
    IF ~DictHas(d, MergeKey(h))
    THEN Append(d, [key |-> MergeKey(h), val |-> MergeSeed(h)])
    ELSE LET i == DictIndex(d, MergeKey(h))
         IN  Append(SubSeq(d, 1, i - 1) \o SubSeq(d, i + 1, Len(d)),
                    [key |-> d[i].key, val |-> MergeExisting(d[i].val, h)])

\* one iteration of `for h in hosts`
MergeIter(d, h) ==
    IF ~DictHas(d, MergeKey(h))
    THEN Append(d, [key |-> MergeKey(h), val |-> MergeSeed(h)])
    ELSE [d EXCEPT ![DictIndex(d, MergeKey(h))].val = MergeExisting(@, h)]

RECURSIVE MergeLoop(_, _)
MergeLoop(d, hosts) ==
    IF hosts = <<>> THEN d
    ELSE MergeLoop(MergeIter(d, Head(hosts)), Tail(hosts))

merge_hosts_by_ip(hosts) == DictValues(MergeLoop(<<>>, hosts))

-----------------------------------------------------------------------------
(* The merge as a state machine: the loop over the argument, the return,   *)
(* and a second merge of the returned list.                                *)

OsIdle ==
    /\ o_pc = "idle"
    /\ o_prev = Host(Ip1, None, <<>>, None, NoAcc)
    /\ o_cand = <<None, NoAcc>>
    /\ o_cur = Host(Ip1, None, <<>>, None, NoAcc)
    /\ o_inl = Host(Ip1, None, <<>>, None, NoAcc)

MergeIdle ==
    /\ m_in = <<>>
    /\ by_ip = <<>>
    /\ m_pc = "idle"
    /\ m_out = <<>>
    /\ m_out2 = <<>>

ParseIdle ==
    /\ text = [xml |-> FALSE, doc |-> <<>>, lines |-> <<>>]
    /\ p_pc = "idle"
    /\ p_i = 1
    /\ p_hosts = <<>>
    /\ p_current = <<>>
    /\ p_used = "none"
    /\ p_result = <<>>

DrawIdle ==
    /\ d_n = 0
    /\ d_hub = FALSE
    /\ d_ph = 0
    /\ d_i = 0
    /\ next_id = 0
    /\ branding_id = 0
    /\ network_id = 0
    /\ host_id_map = <<>>
    /\ cells = <<>>

ClassIdle ==
    /\ c_os = {}
    /\ c_ports = <<>>
    /\ c_pc = "idle"
    /\ c_type = "none"

LayoutIdle ==
    /\ l_n = 0
    /\ l_hub = FALSE
    /\ l_pc = "idle"
    /\ l_geo = <<>>
    /\ l_canvas = <<>>
    /\ l_place = <<>>
    /\ l_hubgeo = <<>>

MainIdle ==
    /\ x_pc = "idle"
    /\ x_sort = "none"
    /\ x_hosts = <<>>
    /\ x_exit = Running
    /\ x_built = FALSE
    /\ x_written = FALSE

HeapIdle ==
    /\ hp_objs = <<>>
    /\ hp_lists = <<>>
    /\ hp_in = <<>>
    /\ hp_vals = <<>>
    /\ hp_dict = <<>>
    /\ hp_i = 1
    /\ hp_pc = "idle"
    /\ hp_out = <<>>

MergeInit ==
    /\ m_in = <<>>
    /\ by_ip = <<>>
    /\ m_pc = "loop"
    /\ m_out = <<>>
    /\ m_out2 = <<>>
    /\ OsIdle
    /\ ParseIdle
    /\ DrawIdle
    /\ ClassIdle /\ LayoutIdle /\ MainIdle /\ HeapIdle

MergeIterate ==
    /\ m_pc = "loop"
    /\ Len(m_in) < MaxHosts
    /\ \E h \in HostRecords :
          /\ m_in' = Append(m_in, h)
          /\ by_ip' = MergeIter(by_ip, h)
    /\ UNCHANGED <<m_pc, m_out, m_out2, os_vars, parse_vars, draw_vars, ext_vars>>

MergeReturn ==
    /\ m_pc = "loop"
    /\ m_pc' = "done"
    /\ m_out' = DictValues(by_ip)
    /\ UNCHANGED <<m_in, by_ip, m_out2, os_vars, parse_vars, draw_vars, ext_vars>>

MergeAgain ==
    /\ m_pc = "done"
    /\ m_pc' = "again"
    /\ m_out2' = merge_hosts_by_ip(m_out)
    /\ UNCHANGED <<m_in, by_ip, m_out, os_vars, parse_vars, draw_vars, ext_vars>>

MergeNext == MergeIterate \/ MergeReturn \/ MergeAgain

SpecMerge == MergeInit /\ [][MergeNext]_vars

-----------------------------------------------------------------------------
(* The OS-guess update on one host: the same candidate is applied by       *)
(* _maybe_set_os and by the rule inlined in merge_hosts_by_ip.             *)

\* OS fields a parsed record can carry
SeedOs == {None, "Linux", "Windows"} \X {NoAcc, 80, 95}

\* candidates: an absent, empty or non-empty guess, with or without accuracy
CandGuess == {None, "", "Linux", "Windows"}
CandAcc   == {NoAcc, 80, 95}

OsInit ==
    /\ o_pc = "fresh"
    /\ \E os \in SeedOs :
          /\ o_cur = Host(Ip1, None, <<>>, os[1], os[2])
          /\ o_prev = o_cur
          /\ o_inl = o_cur
    /\ o_cand = <<None, NoAcc>>
    /\ MergeIdle
    /\ ParseIdle
    /\ DrawIdle
    /\ ClassIdle /\ LayoutIdle /\ MainIdle /\ HeapIdle

OsUpdate ==
    /\ o_pc \in {"fresh", "set"}
    /\ o_pc' = "set"
    /\ \E guess \in CandGuess, acc \in CandAcc :
          /\ o_prev' = o_cur
          /\ o_cand' = <<guess, acc>>
          /\ o_cur' = MaybeSetOs(o_cur, guess, acc)
          /\ o_inl' = MergeOs(o_cur, Host(Ip1, None, <<>>, guess, acc))
    /\ UNCHANGED <<merge_vars, parse_vars, draw_vars, ext_vars>>

OsNext == OsUpdate

SpecOs == OsInit /\ [][OsNext]_vars

-----------------------------------------------------------------------------
(* The input text.  A text is a sequence of lines; a line is given by the  *)
(* pattern it is an instance of and by the groups that pattern captures.   *)
(* indent says that the line starts with white space.  A text that starts  *)
(* with an XML prolog (xml) also carries the host elements of its document.*)

MaxLines    == 3
MaxXmlHosts == 2

Line(kind, indent, a, b, os, items) ==
    [kind |-> kind, indent |-> indent, a |-> a, b |-> b, os |-> os,
     items |-> items]

\* "Nmap scan report for <head>" or "Nmap scan report for <head> (<inner>)"
ReportLine(head, inner) == Line("report", FALSE, head, inner, <<>>, <<>>)

\* "<port>/<proto>  open  <service> <rest>"
PortLine(port, proto, service, rest) ==
    Line("port", FALSE, "", "", <<>>,
         <<[port |-> port, proto |-> proto, service |-> service, rest |-> rest]>>)

\* one fragment "label (NN%)" of a comma-separated OS list
Frag(label, pct) == [label |-> label, pct |-> pct]

\* "OS guesses: <fragments>" / "Aggressive OS guesses: <fragments>"
OsGuessesLine(frags) == Line("osguesses", FALSE, "", "", frags, <<>>)

\* "OS details: <a>"
OsDetailsLine(a) == Line("osdetails", FALSE, a, "", <<>>, <<>>)

\* "Running: <a>"
RunningLine(a) == Line("running", FALSE, a, "", <<>>, <<>>)

\* "Service Info: ...; OS: <a>; ..." (a = None: no OS fragment in the blob)
ServiceInfoLine(a) == Line("serviceinfo", FALSE, a, "", <<>>, <<>>)

\* one "port/state/proto/owner/service/..." entry of a grepable Ports: list;
\* n is the number of slash-separated parts
Chunk(n, port, state, proto, service) ==
    [n |-> n, port |-> port, state |-> state, proto |-> proto,
     service |-> service]

\* "Host: <ip> (<name>)\tPorts: <chunks>[\tOS: <fragments>]"
GrepLine(indent, ip, name, chunks, os) ==
    Line("ghost", indent, ip, name, os, chunks)

\* "Host: <a>" followed by something that is not "(<name>) Ports: ..."
HostOnlyLine(a) == Line("hostonly", FALSE, a, "", <<>>, <<>>)

OtherLine == Line("other", FALSE, "", "", <<>>, <<>>)

C_http   == Chunk(8, "80", "open", "tcp", "http")
C_closed == Chunk(8, "22", "closed", "tcp", "ssh")
C_nosvc  == Chunk(8, "443", "open", "tcp", "")
C_short  == Chunk(3, "25", "open", "tcp", "")

LineSet ==
    { ReportLine(Ip1, None),
      ReportLine("web", Ip1),
      ReportLine(Ip2, None),
      ReportLine("gateway", None),
      PortLine("80", "tcp", "http", ""),
      PortLine("80", "tcp", "http", "Apache"),
      OsGuessesLine(<<Frag("Linux", 95), Frag("Windows", 80)>>),
      OsGuessesLine(<<Frag("", 95)>>),
      OsDetailsLine("Windows"),
      RunningLine(""),
      ServiceInfoLine("Linux"),
      GrepLine(FALSE, Ip1, "", <<C_http>>, <<>>),
      GrepLine(TRUE, Ip1, "", <<C_http>>, <<>>),
      GrepLine(FALSE, Ip1, "web", <<C_http, C_closed, C_http, C_short>>, <<>>),
      GrepLine(FALSE, Ip1, "", <<C_nosvc>>, <<Frag("", 95)>>),
      GrepLine(FALSE, Ip1, "", <<>>, <<Frag("Linux", NoAcc)>>),
      HostOnlyLine("up"),
      OtherLine }

\* <osmatch name=.. accuracy=..>; accuracy = None: the attribute is missing
OsMatch(name, accuracy) == [name |-> name, accuracy |-> accuracy]

\* <port protocol=.. portid=..><state state=..><service name=.. product=..>
XmlPort(protocol, portid, state, svc, product) ==
    [protocol |-> protocol, portid |-> portid, state |-> state, svc |-> svc,
     product |-> product]

\* <host>: status (None: no status element), the address children, the
\* hostname names, the osmatch children of <os>, the port children of <ports>
XmlHost(status, addrs, hostnames, osmatches, ports) ==
    [status |-> status, addrs |-> addrs, hostnames |-> hostnames,
     osmatches |-> osmatches, ports |-> ports]

Addr(addrtype, addr) == [addrtype |-> addrtype, addr |-> addr]

X_http == XmlPort("tcp", "80", "open", "http", "")

XmlHostSet ==
    { XmlHost("up", <<Addr("mac", "00:11"), Addr("ipv4", Ip1)>>, <<"web">>,
              <<OsMatch("Linux", "80"), OsMatch("Windows", "92")>>,
              <<X_http, XmlPort("tcp", "80", "open", "http", "Apache")>>),
      XmlHost("up", <<Addr("ipv4", Ip1)>>, <<>>,
              <<OsMatch("", "92")>>, <<X_http, X_http>>),
      XmlHost(None, <<Addr("ipv4", Ip1)>>, <<>>,
              <<OsMatch("Linux", "abc"), OsMatch("Windows", None)>>,
              <<XmlPort("", "", "open", None, "")>>),
      XmlHost("up", <<Addr("ipv6", Ip2)>>, <<>>, <<>>,
              <<XmlPort("tcp", "22", "closed", "ssh", "")>>),
      XmlHost("down", <<Addr("ipv4", Ip2)>>, <<>>, <<>>, <<>>),
      XmlHost("up", <<Addr("mac", "00:11")>>, <<>>, <<>>, <<>>) }

SeqsUpTo(S, n) == UNION {[1..k -> S] : k \in 0..n}

Texts ==
    {[xml |-> FALSE, doc |-> <<>>, lines |-> ls] :
        ls \in SeqsUpTo(LineSet, MaxLines)}
    \cup
    {[xml |-> TRUE, doc |-> d, lines |-> ls] :
        d \in SeqsUpTo(XmlHostSet, MaxXmlHosts),
        ls \in {<<>>, <<GrepLine(FALSE, Ip1, "", <<C_http>>, <<>>)>>}}

-----------------------------------------------------------------------------
(* _parse_first_guess_with_accuracy: s is the fragment list of the string; *)
(* only the first fragment is used, its "(NN%)" becomes the accuracy and   *)
(* what is left of it, stripped, the guess (None when nothing is left).    *)

ParseFirstGuess(s) ==
    IF s = <<>> THEN <<None, NoAcc>>
    ELSE <<IF s[1].label = "" THEN None ELSE s[1].label, s[1].pct>>

-----------------------------------------------------------------------------
(* parse_nmap_normal *)

\* ^\d{1,3}(\.\d{1,3}){3}$
IsDottedQuad(s) == s \in Ips

\* the Host started by a host-announcement line
ReportHost(line) ==
    IF line.b # None
    THEN Host(line.b, line.a, <<>>, None, NoAcc)
    ELSE IF IsDottedQuad(line.a)
         THEN Host(line.a, None, <<>>, None, NoAcc)
         ELSE Host(line.a, line.a, <<>>, None, NoAcc)

\* f"{port}/{proto} {service}" + (f" {rest}" if rest else "")
PortEntry(p) ==
    [port |-> p.port, proto |-> p.proto,
     text |-> IF p.rest = "" THEN p.service ELSE p.service \o " " \o p.rest]

\* the body of `for line in text.splitlines()`; st = [hosts, current]
NormalLine(st, line) ==
    IF line.kind = "report" /\ ~line.indent
    THEN [hosts   |-> IF st.current # <<>>
                      THEN Append(st.hosts, st.current[1])
                      ELSE st.hosts,
          current |-> <<ReportHost(line)>>]
    ELSE IF st.current = <<>> \/ line.indent
    THEN st
    ELSE CASE line.kind = "osguesses" ->
                LET ga == ParseFirstGuess(line.os)
                IN  [st EXCEPT !.current = <<MaybeSetOs(@[1], ga[1], ga[2])>>]
           [] line.kind \in {"osdetails", "running"} ->
                [st EXCEPT !.current = <<MaybeSetOs(@[1], line.a, NoAcc)>>]
           [] line.kind = "serviceinfo" ->
                IF line.a # None
                THEN [st EXCEPT !.current = <<MaybeSetOs(@[1], line.a, NoAcc)>>]
                ELSE st
           [] line.kind = "port" ->
                [st EXCEPT !.current =
                    <<[@[1] EXCEPT !.ports = Append(@, PortEntry(line.items[1]))]>>]
           [] OTHER -> st

\* the per-host de-duplication of ports after the pass
UniqKeepAll(ports) == ports

RECURSIVE UniqFrom(_, _)
UniqFrom(uniq, ports) ==
    IF ports = <<>> THEN uniq
    ELSE UniqFrom(IF Head(ports) \in Range(uniq)
                  THEN uniq
                  ELSE Append(uniq, Head(ports)),
                  Tail(ports))

Uniq(ports) == UniqFrom(<<>>, ports)

\* end of input without the flush of the host in progress
NormalFinishNoFlush(st) ==
    merge_hosts_by_ip(
        [i \in 1..Len(st.hosts) |-> [st.hosts[i] EXCEPT !.ports = Uniq(@)]])

\* end of input: flush, de-duplicate, merge
NormalFinish(st) ==
    LET hosts == IF st.current # <<>>
                 THEN Append(st.hosts, st.current[1])
                 ELSE st.hosts
    IN  merge_hosts_by_ip(
            [i \in 1..Len(hosts) |-> [hosts[i] EXCEPT !.ports = Uniq(@)]])

RECURSIVE NormalLines(_, _)
NormalLines(st, lines) ==
    IF lines = <<>> THEN st
    ELSE NormalLines(NormalLine(st, Head(lines)), Tail(lines))

parse_nmap_normal(t) ==
    NormalFinish(NormalLines([hosts |-> <<>>, current |-> <<>>], t.lines))

-----------------------------------------------------------------------------
(* parse_nmap_grepable *)

\* a pattern that asks for "Host: <word>" only
GreppableHostMatchLoose(line) == line.kind \in {"ghost", "hostonly"}

\* _RE_GREPPABLE_HOST.match(line.strip())
GreppableHostMatch(line) == line.kind = "ghost"

RECURSIVE GrepPorts(_, _)
GrepPorts(ports, chunks) ==
    IF chunks = <<>> THEN ports
    ELSE LET c == Head(chunks)
         IN  GrepPorts(
                IF c.n < 5 \/ c.state # "open"
                THEN ports
                ELSE Append(ports,
                        [port |-> c.port, proto |-> c.proto,
                         text |-> IF c.service = "" THEN "unknown"
                                  ELSE c.service]),
                Tail(chunks))

GrepOs(line) ==
    IF line.os = <<>> THEN <<None, NoAcc>> ELSE ParseFirstGuess(line.os)

\* the body of `for line in text.splitlines()`
GrepableLine(hosts, line) ==
    IF ~GreppableHostMatch(line) THEN hosts
    ELSE Append(hosts,
            Host(line.a,
                 IF line.b = "" THEN None ELSE line.b,
                 GrepPorts(<<>>, line.items),
                 GrepOs(line)[1], GrepOs(line)[2]))

RECURSIVE GrepableLines(_, _)
GrepableLines(hosts, lines) ==
    IF lines = <<>> THEN hosts
    ELSE GrepableLines(GrepableLine(hosts, Head(lines)), Tail(lines))

parse_nmap_grepable(t) == merge_hosts_by_ip(GrepableLines(<<>>, t.lines))

-----------------------------------------------------------------------------
(* parse_nmap_xml *)

\* int(acc_s), 0 on ValueError; a missing attribute reads "0"
AccValue == [s \in {"0", "80", "92"} |->
                IF s = "80" THEN 80 ELSE IF s = "92" THEN 92 ELSE 0]

ParseAcc(acc_s) ==
    IF acc_s = None THEN 0
    ELSE IF acc_s \in DOMAIN AccValue THEN AccValue[acc_s]
    ELSE 0

\* the loop over osmatch with `acc >= best_acc`: the last of several
\* candidates of the highest accuracy is kept
RECURSIVE XmlBestLastWins(_, _)
XmlBestLastWins(b, osmatches) ==
    IF osmatches = <<>> THEN b
    ELSE XmlBestLastWins(IF ParseAcc(Head(osmatches).accuracy) >= b.best_acc
                         THEN [best |-> <<Head(osmatches)>>,
                               best_acc |-> ParseAcc(Head(osmatches).accuracy)]
                         ELSE b,
                         Tail(osmatches))

\* the loop over osmatch: b = [best, best_acc], best = <<>> for None
RECURSIVE XmlBest(_, _)
XmlBest(b, osmatches) ==
    IF osmatches = <<>> THEN b
    ELSE XmlBest(IF ParseAcc(Head(osmatches).accuracy) > b.best_acc
                 THEN [best |-> <<Head(osmatches)>>,
                       best_acc |-> ParseAcc(Head(osmatches).accuracy)]
                 ELSE b,
                 Tail(osmatches))

XmlOs(osmatches) ==
    LET b == XmlBest([best |-> <<>>, best_acc |-> -1], osmatches)
    IN  IF b.best = <<>> THEN <<None, NoAcc>>
        ELSE <<IF Truthy(b.best[1].name) THEN b.best[1].name ELSE None,
               IF b.best_acc >= 0 THEN b.best_acc ELSE NoAcc>>

\* the first ipv4/ipv6 address child, None when there is none
RECURSIVE XmlIp(_)
XmlIp(addrs) ==
    IF addrs = <<>> THEN None
    ELSE IF Head(addrs).addrtype \in {"ipv4", "ipv6"} THEN Head(addrs).addr
    ELSE XmlIp(Tail(addrs))

RECURSIVE XmlPorts(_, _)
XmlPorts(ports, els) ==
    IF els = <<>> THEN ports
    ELSE LET p == Head(els)
             proto == IF p.protocol = "" THEN "tcp" ELSE p.protocol
             portid == IF p.portid = "" THEN "?" ELSE p.portid
             svc_name == IF Truthy(p.svc) THEN p.svc ELSE "unknown"
         IN  XmlPorts(
                IF p.state # "open" THEN ports
                ELSE Append(ports,
                        [port |-> portid, proto |-> proto,
                         text |-> IF p.product = "" THEN svc_name
                                  ELSE svc_name \o " " \o p.product]),
                Tail(els))

\* the body of `for h in root.findall("host")`
XmlHostStep(hosts, h) ==
    IF h.status \notin {None, "up"} THEN hosts
    ELSE IF ~Truthy(XmlIp(h.addrs)) THEN hosts
    ELSE Append(hosts,
            Host(XmlIp(h.addrs),
                 IF h.hostnames # <<>> THEN h.hostnames[1] ELSE None,
                 XmlPorts(<<>>, h.ports),
                 XmlOs(h.osmatches)[1], XmlOs(h.osmatches)[2]))

RECURSIVE XmlHosts(_, _)
XmlHosts(hosts, els) ==
    IF els = <<>> THEN hosts
    ELSE XmlHosts(XmlHostStep(hosts, Head(els)), Tail(els))

parse_nmap_xml(t) == merge_hosts_by_ip(XmlHosts(<<>>, t.doc))

-----------------------------------------------------------------------------
(* parse_nmap: the format dispatch and the run of the chosen parser        *)

LooksLikeXml(t) == t.xml

\* re.search(r"^Host:\s+\S+", text, flags=re.MULTILINE): the pattern is
\* tried at the first character of each line, white space included
LooksLikeGrepable(t) ==
    \E i \in 1..Len(t.lines) :
        /\ ~t.lines[i].indent
        /\ t.lines[i].kind \in {"ghost", "hostonly"}

ParseInit ==
    /\ text \in Texts
    /\ p_pc = "start"
    /\ p_i = 1
    /\ p_hosts = <<>>
    /\ p_current = <<>>
    /\ p_used = "none"
    /\ p_result = <<>>
    /\ x_pc = "parse"
    /\ x_sort = "none"
    /\ x_hosts = <<>>
    /\ x_exit = Running
    /\ x_built = FALSE
    /\ x_written = FALSE
    /\ MergeIdle
    /\ OsIdle
    /\ DrawIdle
    /\ ClassIdle /\ LayoutIdle /\ HeapIdle

ParseDispatch ==
    /\ p_pc = "start"
    /\ p_pc' = IF LooksLikeXml(text) THEN "xml"
               ELSE IF LooksLikeGrepable(text) THEN "grepable"
               ELSE "normal"
    /\ UNCHANGED <<text, p_i, p_hosts, p_current, p_used, p_result>>
    /\ UNCHANGED <<merge_vars, os_vars, draw_vars, ext_vars>>

XmlStep ==
    /\ p_pc = "xml"
    /\ p_i <= Len(text.doc)
    /\ p_hosts' = XmlHostStep(p_hosts, text.doc[p_i])
    /\ p_i' = p_i + 1
    /\ UNCHANGED <<text, p_pc, p_current, p_used, p_result>>
    /\ UNCHANGED <<merge_vars, os_vars, draw_vars, ext_vars>>

XmlReturn ==
    /\ p_pc = "xml"
    /\ p_i > Len(text.doc)
    /\ p_result' = merge_hosts_by_ip(p_hosts)
    /\ p_used' = "xml"
    /\ p_pc' = "done"
    /\ UNCHANGED <<text, p_i, p_hosts, p_current>>
    /\ UNCHANGED <<merge_vars, os_vars, draw_vars, ext_vars>>

GrepStep ==
    /\ p_pc = "grepable"
    /\ p_i <= Len(text.lines)
    /\ p_hosts' = GrepableLine(p_hosts, text.lines[p_i])
    /\ p_i' = p_i + 1
    /\ UNCHANGED <<text, p_pc, p_current, p_used, p_result>>
    /\ UNCHANGED <<merge_vars, os_vars, draw_vars, ext_vars>>

\* `if hosts: return hosts`
GrepReturn ==
    /\ p_pc = "grepable"
    /\ p_i > Len(text.lines)
    /\ merge_hosts_by_ip(p_hosts) # <<>>
    /\ p_result' = merge_hosts_by_ip(p_hosts)
    /\ p_used' = "grepable"
    /\ p_pc' = "done"
    /\ UNCHANGED <<text, p_i, p_hosts, p_current>>
    /\ UNCHANGED <<merge_vars, os_vars, draw_vars, ext_vars>>

\* the grepable attempt found no host: parse_nmap_normal(text)
GrepFallThrough ==
    /\ p_pc = "grepable"
    /\ p_i > Len(text.lines)
    /\ merge_hosts_by_ip(p_hosts) = <<>>
    /\ p_pc' = "normal"
    /\ p_i' = 1
    /\ p_hosts' = <<>>
    /\ p_current' = <<>>
    /\ UNCHANGED <<text, p_used, p_result>>
    /\ UNCHANGED <<merge_vars, os_vars, draw_vars, ext_vars>>

NormalStep ==
    /\ p_pc = "normal"
    /\ p_i <= Len(text.lines)
    /\ LET st == NormalLine([hosts |-> p_hosts, current |-> p_current],
                            text.lines[p_i])
       IN  /\ p_hosts' = st.hosts
           /\ p_current' = st.current
    /\ p_i' = p_i + 1
    /\ UNCHANGED <<text, p_pc, p_used, p_result>>
    /\ UNCHANGED <<merge_vars, os_vars, draw_vars, ext_vars>>

NormalReturn ==
    /\ p_pc = "normal"
    /\ p_i > Len(text.lines)
    /\ p_result' = NormalFinish([hosts |-> p_hosts, current |-> p_current])
    /\ p_used' = "normal"
    /\ p_pc' = "done"
    /\ UNCHANGED <<text, p_i, p_hosts, p_current>>
    /\ UNCHANGED <<merge_vars, os_vars, draw_vars, ext_vars>>

(* main after parse_nmap has returned: the optional sort, the test for an  *)
(* empty list, build_drawio and the write of the output file               *)

\* "." in h.ip
HasDot(ip) == ip \in Ips

\* tuple(int(x) if x.isdigit() else 0 for x in h.ip.split("."))
IpTuple(ip) == IF ip = Ip1 THEN <<10, 0, 0, 1>> ELSE <<10, 0, 0, 2>>

\* the position of a string in the order of str.__lt__
StrRank(str) ==
    CASE str = ""        -> 0
      [] str = Ip1       -> 1
      [] str = Ip2       -> 2
      [] str = "00:11"   -> 3
      [] str = "gateway" -> 4
      [] str = "up"      -> 5
      [] OTHER           -> 6

\* a < b for tuples of integers of the same length
RECURSIVE TupleLess(_, _)
TupleLess(a, b) ==
    IF a = <<>> \/ b = <<>> THEN a = <<>> /\ b # <<>>
    ELSE IF Head(a) # Head(b) THEN Head(a) < Head(b)
    ELSE TupleLess(Tail(a), Tail(b))

\* key(a) < key(b) for the key of the sort mode
KeyLess(mode, a, b) ==
    IF mode = "ip"
    THEN IF HasDot(a.ip) THEN TupleLess(IpTuple(a.ip), IpTuple(b.ip))
         ELSE StrRank(a.ip) < StrRank(b.ip)
    ELSE LET na == IF Truthy(a.name) THEN a.name ELSE ""
             nb == IF Truthy(b.name) THEN b.name ELSE ""
         IN  TupleLess(<<StrRank(na), StrRank(a.ip)>>,
                       <<StrRank(nb), StrRank(b.ip)>>)

\* the ip sort compares a tuple of integers with a tuple holding a string:
\* TypeError
SortRaises(hosts, mode) ==
    /\ mode = "ip"
    /\ \E i, j \in 1..Len(hosts) : HasDot(hosts[i].ip) # HasDot(hosts[j].ip)

\* h put into an ordered list behind every element that is not greater
RECURSIVE SortInsert(_, _, _)
SortInsert(mode, sorted, h) ==
    IF sorted = <<>> THEN <<h>>
    ELSE IF KeyLess(mode, h, Head(sorted)) THEN <<h>> \o sorted
    ELSE <<Head(sorted)>> \o SortInsert(mode, Tail(sorted), h)

RECURSIVE SortFrom(_, _, _)
SortFrom(mode, sorted, hosts) ==
    IF hosts = <<>> THEN sorted
    ELSE SortFrom(mode, SortInsert(mode, sorted, Head(hosts)), Tail(hosts))

\* hosts.sort(key=...), a stable sort; no sort for mode "none"
Sorted(hosts, mode) ==
    IF mode = "none" THEN hosts ELSE SortFrom(mode, <<>>, hosts)

SortModes == {"none", "ip", "name"}

\* the sort raises: the process ends with a traceback and status 1
MainSortError ==
    /\ p_pc = "done"
    /\ x_pc = "parse"
    /\ \E mode \in SortModes :
          /\ SortRaises(p_result, mode)
          /\ x_sort' = mode
    /\ x_exit' = 1
    /\ x_pc' = "exit"
    /\ UNCHANGED <<x_hosts, x_built, x_written>>
    /\ UNCHANGED <<merge_vars, os_vars, parse_vars, draw_vars, class_vars,
                   layout_vars, heap_vars>>

\* `if not hosts`: the message on stderr and return 2
MainNoHosts ==
    /\ p_pc = "done"
    /\ x_pc = "parse"
    /\ \E mode \in SortModes :
          /\ ~SortRaises(p_result, mode)
          /\ Sorted(p_result, mode) = <<>>
          /\ x_sort' = mode
          /\ x_hosts' = Sorted(p_result, mode)
    /\ x_exit' = 2
    /\ x_pc' = "exit"
    /\ UNCHANGED <<x_built, x_written>>
    /\ UNCHANGED <<merge_vars, os_vars, parse_vars, draw_vars, class_vars,
                   layout_vars, heap_vars>>

\* build_drawio, the write of the output file and return 0
MainBuildWrite ==
    /\ p_pc = "done"
    /\ x_pc = "parse"
    /\ \E mode \in SortModes :
          /\ ~SortRaises(p_result, mode)
          /\ Sorted(p_result, mode) # <<>>
          /\ x_sort' = mode
          /\ x_hosts' = Sorted(p_result, mode)
    /\ x_built' = TRUE
    /\ x_written' = TRUE
    /\ x_exit' = 0
    /\ x_pc' = "exit"
    /\ UNCHANGED <<merge_vars, os_vars, parse_vars, draw_vars, class_vars,
                   layout_vars, heap_vars>>

ParseNext ==
    \/ ParseDispatch
    \/ XmlStep
    \/ XmlReturn
    \/ GrepStep
    \/ GrepReturn
    \/ GrepFallThrough
    \/ NormalStep
    \/ NormalReturn
    \/ MainSortError
    \/ MainNoHosts
    \/ MainBuildWrite

SpecParse == ParseInit /\ [][ParseNext]_vars

-----------------------------------------------------------------------------
(* build_drawio: the identifiers it allocates and the cells it appends to  *)
(* the document root.  Identifiers are the integers whose decimal strings  *)
(* the code writes.                                                        *)

MaxDrawHosts == 8

Cell(id, kind, source, target) ==
    [id |-> id, kind |-> kind, source |-> source, target |-> target]

\* the order of the emitting statements in the function body
PhaseOrderNodesFirst == <<"branding", "hub", "hosts", "edges", "done">>

PhaseOrder == <<"edges", "branding", "hub", "hosts", "done">>

\* the edge loop not guarded by add_network_node
PhaseRunsEdgesUnguarded(ph, hub, n) ==
    CASE ph = "edges"    -> n > 0
      [] ph = "branding" -> TRUE
      [] ph = "hub"      -> hub
      [] ph = "hosts"    -> n > 0
      [] OTHER           -> TRUE

\* whether the statement emits anything for this call
PhaseRuns(ph, hub, n) ==
    CASE ph = "edges"    -> hub /\ n > 0
      [] ph = "branding" -> TRUE
      [] ph = "hub"      -> hub
      [] ph = "hosts"    -> n > 0
      [] OTHER           -> TRUE

\* the first statement at or after position k that emits something
RECURSIVE PhaseFrom(_, _, _)
PhaseFrom(k, hub, n) ==
    IF PhaseRuns(PhaseOrder[k], hub, n) THEN k ELSE PhaseFrom(k + 1, hub, n)

DrawInit ==
    /\ d_n \in 1..MaxDrawHosts
    /\ d_hub \in BOOLEAN
    /\ d_ph = 0
    /\ d_i = 0
    /\ next_id = 0
    /\ branding_id = 0
    /\ network_id = 0
    /\ host_id_map = <<>>
    /\ cells = <<>>
    /\ MergeIdle
    /\ OsIdle
    /\ ParseIdle
    /\ ClassIdle /\ LayoutIdle /\ MainIdle /\ HeapIdle

\* str(next_id): the decimal digits of a non-negative integer
RECURSIVE Str(_)
Str(n) == IF n < 10 THEN <<n>> ELSE Append(Str(n \div 10), n % 10)

\* the counter not advanced after the hub identifier was taken: the first
\* host gets the identifier of the hub
DrawReserveHubNotCounted ==
    /\ d_ph = 0
    /\ cells' = <<Cell(0, "root", 0, 0), Cell(1, "layer", 0, 0)>>
    /\ branding_id' = 2
    /\ network_id' = IF d_hub THEN 3 ELSE 0
    /\ host_id_map' = [i \in 0..(d_n - 1) |-> 3 + i]
    /\ next_id' = 3 + d_n
    /\ d_ph' = PhaseFrom(1, d_hub, d_n)
    /\ d_i' = 0
    /\ UNCHANGED <<d_n, d_hub>>
    /\ UNCHANGED <<merge_vars, os_vars, parse_vars, ext_vars>>

\* the root cells "0" and "1" and the identifiers of branding, hub and hosts
DrawReserve ==
    /\ d_ph = 0
    /\ cells' = <<Cell(0, "root", 0, 0), Cell(1, "layer", 0, 0)>>
    /\ branding_id' = 2
    /\ network_id' = IF d_hub THEN 3 ELSE 0
    /\ host_id_map' = [i \in 0..(d_n - 1) |-> (IF d_hub THEN 4 ELSE 3) + i]
    /\ next_id' = (IF d_hub THEN 4 ELSE 3) + d_n
    /\ d_ph' = PhaseFrom(1, d_hub, d_n)
    /\ d_i' = 0
    /\ UNCHANGED <<d_n, d_hub>>
    /\ UNCHANGED <<merge_vars, os_vars, parse_vars, ext_vars>>

\* the index to go on with after iteration d_i of a loop over range(n)
DrawLoopNext ==
    /\ d_i' = IF d_i + 1 < d_n THEN d_i + 1 ELSE 0
    /\ d_ph' = IF d_i + 1 < d_n THEN d_ph ELSE PhaseFrom(d_ph + 1, d_hub, d_n)

DrawEdge ==
    /\ d_ph > 0
    /\ PhaseOrder[d_ph] = "edges"
    /\ cells' = Append(cells, Cell(next_id, "edge", network_id, host_id_map[d_i]))
    /\ next_id' = next_id + 1
    /\ DrawLoopNext
    /\ UNCHANGED <<d_n, d_hub, branding_id, network_id, host_id_map>>
    /\ UNCHANGED <<merge_vars, os_vars, parse_vars, ext_vars>>

DrawBranding ==
    /\ d_ph > 0
    /\ PhaseOrder[d_ph] = "branding"
    /\ cells' = Append(cells, Cell(branding_id, "branding", 0, 0))
    /\ d_ph' = PhaseFrom(d_ph + 1, d_hub, d_n)
    /\ UNCHANGED <<d_n, d_hub, d_i, next_id, branding_id, network_id, host_id_map>>
    /\ UNCHANGED <<merge_vars, os_vars, parse_vars, ext_vars>>

DrawHub ==
    /\ d_ph > 0
    /\ PhaseOrder[d_ph] = "hub"
    /\ cells' = Append(cells, Cell(network_id, "hub", 0, 0))
    /\ d_ph' = PhaseFrom(d_ph + 1, d_hub, d_n)
    /\ UNCHANGED <<d_n, d_hub, d_i, next_id, branding_id, network_id, host_id_map>>
    /\ UNCHANGED <<merge_vars, os_vars, parse_vars, ext_vars>>

DrawHost ==
    /\ d_ph > 0
    /\ PhaseOrder[d_ph] = "hosts"
    /\ cells' = Append(cells, Cell(host_id_map[d_i], "host", 0, 0))
    /\ DrawLoopNext
    /\ UNCHANGED <<d_n, d_hub, next_id, branding_id, network_id, host_id_map>>
    /\ UNCHANGED <<merge_vars, os_vars, parse_vars, ext_vars>>

DrawNext == DrawReserve \/ DrawEdge \/ DrawBranding \/ DrawHub \/ DrawHost

SpecDraw == DrawInit /\ [][DrawNext]_vars

-----------------------------------------------------------------------------
(* infer_device_type.  The OS text enters through the keywords that        *)
(* (host.os_guess or "").lower() contains, a port descriptor through the   *)
(* integer its leading digits denote and through the service patterns that *)
(* are found in the descriptor string.                                     *)

MaxPorts == 2

SHAPES ==
    [t \in {"network", "router", "switch", "firewall", "wireless_ap", "server",
            "workstation", "printer", "ip_phone", "camera", "unknown"} |->
        CASE t = "network"     -> "mxgraph.mscae.enterprise.internet"
          [] t = "router"      -> "mxgraph.mscae.enterprise.router"
          [] t = "switch"      -> "mxgraph.mscae.enterprise.device"
          [] t = "firewall"    -> "mxgraph.cisco_safe.security_icons.firewall"
          [] t = "wireless_ap" -> "mxgraph.ios7.icons.wifi"
          [] t = "server"      -> "mxgraph.mscae.enterprise.server_generic"
          [] t = "workstation" -> "mxgraph.mscae.enterprise.workstation_client"
          [] t = "printer"     -> "mxgraph.cisco19.printer"
          [] t = "ip_phone"    -> "mxgraph.cisco19.ip_phone"
          [] t = "camera"      -> "mxgraph.aws4.camera2"
          [] OTHER             -> "mxgraph.mscae.enterprise.device"]

\* SHAPES.get(device_type, SHAPES["unknown"])
style_for_device(device_type) ==
    IF device_type \in DOMAIN SHAPES THEN SHAPES[device_type]
    ELSE SHAPES["unknown"]

\* the keywords the rules look for in the OS text
OsKeywords ==
    {"firewall", "router", "cisco ios", "juniper", "switch", "wireless",
     "access point", "server", "windows", "linux", "unix"}

\* OS texts: without keyword (also None and ""), with one keyword, with any
\* two keywords, with all of them
OsTexts == {{a, b} : a, b \in OsKeywords} \cup {{}, OsKeywords}

\* int(m.group(1)) for the digits before the first slash; a descriptor
\* "?/tcp ..." has none
PortNumber ==
    [p \in {"80", "9100", "631", "515", "5060", "5061", "554", "3389", "445",
            "0445"} |->
        CASE p = "80"   -> 80
          [] p = "9100" -> 9100
          [] p = "631"  -> 631
          [] p = "515"  -> 515
          [] p = "5060" -> 5060
          [] p = "5061" -> 5061
          [] p = "554"  -> 554
          [] p = "3389" -> 3389
          [] OTHER      -> 445]

\* the patterns of has_service that re.search finds in the descriptor, case
\* ignored: "printer|ipp" anywhere, the others as whole words
ServiceFound(e) ==
    CASE e.text \in {"ipp", "http HP Printer"} -> {"printer|ipp"}
      [] e.text = "sip"                        -> {"\\bsip\\b"}
      [] e.text = "rtsp"                       -> {"\\brtsp\\b"}
      [] e.text = "RDP"                        -> {"\\brdp\\b"}
      [] e.text = "smb"                        -> {"\\bsmb\\b"}
      [] OTHER                                 -> {}

has_port(ports, p) ==
    \E i \in 1..Len(ports) :
        /\ ports[i].port \in DOMAIN PortNumber
        /\ PortNumber[ports[i].port] = p

has_service(ports, rx) ==
    \E i \in 1..Len(ports) : rx \in ServiceFound(ports[i])

\* the rules on ports and services tried before the rules on the OS text
infer_device_type_ports_first(osn, ports) ==
    IF has_port(ports, 9100) \/ has_port(ports, 631) \/ has_port(ports, 515)
       \/ has_service(ports, "printer|ipp")
    THEN "printer"
    ELSE IF has_port(ports, 5060) \/ has_port(ports, 5061)
            \/ has_service(ports, "\\bsip\\b")
    THEN "ip_phone"
    ELSE IF has_port(ports, 554) \/ has_service(ports, "\\brtsp\\b")
    THEN "camera"
    ELSE IF "firewall" \in osn THEN "firewall"
    ELSE IF "router" \in osn \/ "cisco ios" \in osn \/ "juniper" \in osn
    THEN "router"
    ELSE IF "switch" \in osn THEN "switch"
    ELSE IF "wireless" \in osn \/ "access point" \in osn THEN "wireless_ap"
    ELSE IF has_port(ports, 3389) \/ has_service(ports, "\\brdp\\b")
    THEN (IF "server" \in osn THEN "server" ELSE "workstation")
    ELSE IF (has_port(ports, 445) \/ has_service(ports, "\\bsmb\\b"))
            /\ "server" \in osn
    THEN "server"
    ELSE IF (has_port(ports, 445) \/ has_service(ports, "\\bsmb\\b"))
            /\ "windows" \in osn
    THEN "workstation"
    ELSE IF "windows" \in osn THEN "workstation"
    ELSE IF "linux" \in osn \/ "unix" \in osn THEN "server"
    ELSE "unknown"

infer_device_type(osn, ports) ==
    IF "firewall" \in osn THEN "firewall"
    ELSE IF "router" \in osn \/ "cisco ios" \in osn \/ "juniper" \in osn
    THEN "router"
    ELSE IF "switch" \in osn THEN "switch"
    ELSE IF "wireless" \in osn \/ "access point" \in osn THEN "wireless_ap"
    ELSE IF has_port(ports, 9100) \/ has_port(ports, 631) \/ has_port(ports, 515)
            \/ has_service(ports, "printer|ipp")
    THEN "printer"
    ELSE IF has_port(ports, 5060) \/ has_port(ports, 5061)
            \/ has_service(ports, "\\bsip\\b")
    THEN "ip_phone"
    ELSE IF has_port(ports, 554) \/ has_service(ports, "\\brtsp\\b")
    THEN "camera"
    ELSE IF has_port(ports, 3389) \/ has_service(ports, "\\brdp\\b")
    THEN (IF "server" \in osn THEN "server" ELSE "workstation")
    ELSE IF (has_port(ports, 445) \/ has_service(ports, "\\bsmb\\b"))
            /\ "server" \in osn
    THEN "server"
    ELSE IF (has_port(ports, 445) \/ has_service(ports, "\\bsmb\\b"))
            /\ "windows" \in osn
    THEN "workstation"
    ELSE IF "windows" \in osn THEN "workstation"
    ELSE IF "linux" \in osn \/ "unix" \in osn THEN "server"
    ELSE "unknown"

\* descriptors: each port a rule names under a service no rule names, and
\* port 80 under services the patterns find or do not find
ClassPorts ==
    {[port |-> p, proto |-> "tcp", text |-> "unknown"] :
        p \in {"9100", "631", "515", "5060", "5061", "554", "3389", "445",
               "0445"}}
    \cup
    {[port |-> "80", proto |-> "tcp", text |-> t] :
        t \in {"http", "ipp", "http HP Printer", "sip", "sips", "rtsp", "RDP",
               "smb"}}

ClassInit ==
    /\ c_os \in OsTexts
    /\ c_ports \in SeqsUpTo(ClassPorts, MaxPorts)
    /\ c_pc = "call"
    /\ c_type = "none"
    /\ MergeIdle /\ OsIdle /\ ParseIdle /\ DrawIdle
    /\ LayoutIdle /\ MainIdle /\ HeapIdle

ClassCall ==
    /\ c_pc = "call"
    /\ c_type' = infer_device_type(c_os, c_ports)
    /\ c_pc' = "done"
    /\ UNCHANGED <<c_os, c_ports>>
    /\ UNCHANGED <<merge_vars, os_vars, parse_vars, draw_vars, layout_vars,
                   main_vars, heap_vars>>

ClassNext == ClassCall

SpecClassify == ClassInit /\ [][ClassNext]_vars

-----------------------------------------------------------------------------
(* compute_layout, and the canvas and page size build_drawio derives from  *)
(* it.  Lengths are fixed-point numbers in hundredths of a unit: the       *)
(* products of the base sizes with 0.85, 0.7 and 0.6 and the sums built    *)
(* from them are exact in floating point for the host counts considered.   *)

MaxLayoutHosts == 200

Max(a, b) == IF a >= b THEN a ELSE b

\* math.ceil(math.sqrt(n)) for n >= 0
CeilSqrt(n) == CHOOSE c \in 0..n : c * c >= n /\ (c = 0 \/ (c - 1) * (c - 1) < n)

\* n // cols, the quotient rounded down
CeilDivFloor(n, d) == n \div d

\* math.ceil(n / d) for n >= 0, d >= 1
CeilDiv(n, d) == (n + d - 1) \div d

\* the thresholds tested with >= instead of >
ScaleGe(n) ==
    LET s1 == IF n >= 30 THEN 85 ELSE 100
        s2 == IF n >= 80 THEN 70 ELSE s1
    IN  IF n >= 150 THEN 60 ELSE s2

\* `scale` after the three threshold tests, in hundredths
Scale(n) ==
    LET s1 == IF n > 30 THEN 85 ELSE 100
        s2 == IF n > 80 THEN 70 ELSE s1
    IN  IF n > 150 THEN 60 ELSE s2

\* <<cols, rows, node_w, node_h, h_gap, v_gap>>
compute_layout(n) ==
    IF n <= 0 THEN <<1, 1, 160 * 100, 70 * 100, 40 * 100, 40 * 100>>
    ELSE LET cols == Max(1, CeilSqrt(n))
             rows == Max(1, CeilDiv(n, cols))
         IN  <<cols, rows, 160 * Scale(n), 70 * Scale(n), 40 * Scale(n),
               40 * Scale(n)>>

margin == 50

\* the same room above the grid with and without the hub
TopExtraNoHubRoom(add_network_node) == 40

top_extra(add_network_node) == IF add_network_node THEN 130 ELSE 40

\* math.ceil of a non-negative fixed-point number
Ceil(x) == (x + 99) \div 100

\* width, height and the pageWidth, pageHeight attributes of build_drawio
PageSize(n, add_network_node) ==
    LET g      == compute_layout(n)
        width  == margin * 2 * 100 + g[1] * g[3] + (g[1] - 1) * g[5]
        height == margin * 2 * 100 + top_extra(add_network_node) * 100
                  + g[2] * g[4] + (g[2] - 1) * g[6]
    IN  [width |-> width, height |-> height,
         pageWidth |-> Max(850, Ceil(width)),
         pageHeight |-> Max(1100, Ceil(height))]

LayoutInit ==
    /\ l_n \in -1..MaxLayoutHosts
    /\ l_hub \in BOOLEAN
    /\ l_pc = "call"
    /\ l_geo = <<>>
    /\ l_canvas = <<>>
    /\ l_place = <<>>
    /\ l_hubgeo = <<>>
    /\ MergeIdle /\ OsIdle /\ ParseIdle /\ DrawIdle
    /\ ClassIdle /\ MainIdle /\ HeapIdle

\* a call compute_layout(n)
LayoutCall ==
    /\ l_pc = "call"
    /\ l_geo' = compute_layout(l_n)
    /\ l_pc' = "returned"
    /\ UNCHANGED <<l_n, l_hub, l_canvas, l_place, l_hubgeo>>
    /\ UNCHANGED <<merge_vars, os_vars, parse_vars, draw_vars, class_vars,
                   main_vars, heap_vars>>

\* build_drawio on a list of n hosts (main calls it on non-empty lists only)
LayoutCanvas ==
    /\ l_pc = "returned"
    /\ l_n >= 1
    /\ l_canvas' = PageSize(l_n, l_hub)
    /\ l_pc' = "done"
    /\ UNCHANGED <<l_n, l_hub, l_geo, l_place, l_hubgeo>>
    /\ UNCHANGED <<merge_vars, os_vars, parse_vars, draw_vars, class_vars,
                   main_vars, heap_vars>>

\* int() of a non-negative fixed-point number
Trunc(x) == x \div 100

\* start_y
start_y(add_network_node) == margin + (IF add_network_node THEN 90 ELSE 0) + 40

\* r = i // cols
GridRow(i, cols) == i \div cols

\* the row index taken for the column
GridColIsRow(i, cols) == i \div cols

\* c = i % cols
GridCol(i, cols) == i % cols

\* host i of n: x and y of the placement loop (fx, fy), host_geom_map[i]
\* (x, y) and the emitted width and height, with node_w and node_h (fw, fh)
HostGeom(i, n, add_network_node) ==
    LET g  == compute_layout(n)
        fx == margin * 100 + GridCol(i, g[1]) * (g[3] + g[5])
        fy == start_y(add_network_node) * 100 + GridRow(i, g[1]) * (g[4] + g[6])
    IN  [fx |-> fx, fy |-> fy, fw |-> g[3], fh |-> g[4],
         x |-> Trunc(fx), y |-> Trunc(fy), width |-> Trunc(g[3]), height |-> Trunc(g[4])]

\* the geometry of the hub cell
HubGeom(n) ==
    [x |-> Trunc(PageSize(n, TRUE).width \div 2 - 45 * 100), y |-> margin,
     width |-> 90, height |-> 60]

\* the rest of build_drawio: the placement loop and the geometry written
\* for the hub cell and the host cells
LayoutPlace ==
    /\ l_pc = "done"
    /\ l_place' = [i \in 0..(l_n - 1) |-> HostGeom(i, l_n, l_hub)]
    /\ l_hubgeo' = IF l_hub THEN <<HubGeom(l_n)>> ELSE <<>>
    /\ l_pc' = "placed"
    /\ UNCHANGED <<l_n, l_hub, l_geo, l_canvas>>
    /\ UNCHANGED <<merge_vars, os_vars, parse_vars, draw_vars, class_vars,
                   main_vars, heap_vars>>

LayoutNext == LayoutCall \/ LayoutCanvas \/ LayoutPlace

SpecLayout == LayoutInit /\ [][LayoutNext]_vars

-----------------------------------------------------------------------------
(* merge_hosts_by_ip on objects.  A Host object is a reference into        *)
(* hp_objs, its ports field a reference into hp_lists; a field assignment  *)
(* or an append changes the object behind the reference, for every holder  *)
(* of the reference.  Strings and integers are immutable values.           *)

MaxHeapHosts == 3

\* the records of the argument: per address a bare record, a record with a
\* name, a port and an OS guess, and a record with another port and a guess
\* of higher accuracy
HeapRecords ==
    {Host(ip, None, <<>>, None, NoAcc) : ip \in Ips}
    \cup {Host(ip, "web", <<P_http>>, "Linux", 80) : ip \in Ips}
    \cup {Host(ip, None, <<P_apache>>, "Windows", 95) : ip \in Ips}

\* the first position of the list vs that holds the value vs[i]
FirstEqual(vs, i) == CHOOSE j \in 1..i : vs[j] = vs[i] /\ \A k \in 1..(j - 1) : vs[k] # vs[i]

\* the value of the Host object behind reference r
HeapValue(r) ==
    Host(hp_objs[r].ip, hp_objs[r].name, hp_lists[hp_objs[r].ports],
         hp_objs[r].os_guess, hp_objs[r].os_accuracy)

HeapDictHas(k) == \E i \in 1..Len(hp_dict) : hp_dict[i].key = k

HeapDictRef(k) == hp_dict[CHOOSE i \in 1..Len(hp_dict) : hp_dict[i].key = k].ref

\* ports=h.ports: the new Host shares the list of the argument record
HeapSeedListShared(nlists, ref) == ref

\* ports=list(h.ports): the reference of the list of the new Host, given the
\* number of list objects so far and the reference h.ports
HeapSeedList(nlists, ref) == nlists + 1

HeapInit ==
    /\ \E vs \in SeqsUpTo(HeapRecords, MaxHeapHosts), same \in BOOLEAN :
          /\ hp_vals = vs
          /\ hp_objs = [i \in 1..Len(vs) |->
                          [ip |-> vs[i].ip, name |-> vs[i].name, ports |-> i,
                           os_guess |-> vs[i].os_guess,
                           os_accuracy |-> vs[i].os_accuracy]]
          /\ hp_lists = [i \in 1..Len(vs) |-> vs[i].ports]
          \* equal records are one object listed twice, or objects of their own
          /\ hp_in = [i \in 1..Len(vs) |-> IF same THEN FirstEqual(vs, i) ELSE i]
    /\ hp_dict = <<>>
    /\ hp_i = 1
    /\ hp_pc = "loop"
    /\ hp_out = <<>>
    /\ MergeIdle /\ OsIdle /\ ParseIdle /\ DrawIdle
    /\ ClassIdle /\ LayoutIdle /\ MainIdle

\* `if h.ip not in by_ip`: a new Host object with a new list
HeapSeed ==
    /\ hp_pc = "loop"
    /\ hp_i <= Len(hp_in)
    /\ LET h == hp_in[hp_i]
           k == MergeKey(hp_objs[h])
       IN  /\ ~HeapDictHas(k)
           /\ hp_lists' = Append(hp_lists, hp_lists[hp_objs[h].ports])
           /\ hp_objs' = Append(hp_objs,
                            [hp_objs[h] EXCEPT !.ports =
                                HeapSeedList(Len(hp_lists), hp_objs[h].ports)])
           /\ hp_dict' = Append(hp_dict, [key |-> k, ref |-> Len(hp_objs) + 1])
    /\ hp_i' = hp_i + 1
    /\ UNCHANGED <<hp_in, hp_vals, hp_pc, hp_out>>
    /\ UNCHANGED <<merge_vars, os_vars, parse_vars, draw_vars, class_vars,
                   layout_vars, main_vars>>

\* `else`: name, OS guess and ports of by_ip[h.ip] are updated in place
HeapUpdate ==
    /\ hp_pc = "loop"
    /\ hp_i <= Len(hp_in)
    /\ LET h == hp_in[hp_i]
           k == MergeKey(hp_objs[h])
       IN  /\ HeapDictHas(k)
           /\ LET e == HeapDictRef(k)
              IN  /\ hp_objs' = [hp_objs EXCEPT ![e] =
                                    MergeOs(MergeName(@, hp_objs[h]), hp_objs[h])]
                  /\ hp_lists' = [hp_lists EXCEPT ![hp_objs[e].ports] =
                                    MergePorts(@, hp_lists[hp_objs[h].ports])]
    /\ hp_i' = hp_i + 1
    /\ UNCHANGED <<hp_in, hp_vals, hp_dict, hp_pc, hp_out>>
    /\ UNCHANGED <<merge_vars, os_vars, parse_vars, draw_vars, class_vars,
                   layout_vars, main_vars>>

\* return list(by_ip.values())
HeapReturn ==
    /\ hp_pc = "loop"
    /\ hp_i > Len(hp_in)
    /\ hp_out' = [i \in 1..Len(hp_dict) |-> hp_dict[i].ref]
    /\ hp_pc' = "done"
    /\ UNCHANGED <<hp_objs, hp_lists, hp_in, hp_vals, hp_dict, hp_i>>
    /\ UNCHANGED <<merge_vars, os_vars, parse_vars, draw_vars, class_vars,
                   layout_vars, main_vars>>

HeapNext == HeapSeed \/ HeapUpdate \/ HeapReturn

SpecHeapMerge == HeapInit /\ [][HeapNext]_vars

-----------------------------------------------------------------------------
(* Properties *)

\* the index at which address ip first occurs in the list hs
FirstIndex(hs, ip) ==
    CHOOSE i \in 1..Len(hs) :
        /\ hs[i].ip = ip
        /\ \A j \in 1..(i - 1) : hs[j].ip # ip

UniqueAddresses(hs) ==
    \A i, j \in 1..Len(hs) : i # j => hs[i].ip # hs[j].ip

\* C1: the list returned by merge_hosts_by_ip has no two records with the
\* same address, whatever the input list (SpecMerge).
C1_UniqueAddresses ==
    /\ UniqueAddresses(DictValues(by_ip))
    /\ UniqueAddresses(m_out)
    /\ UniqueAddresses(m_out2)

\* an input with three records, one address repeated, has been merged
C1_Witness ==
    /\ m_pc = "done"
    /\ Len(m_in) = 3
    /\ Len(m_out) = 2
    /\ m_in[1].ip = m_in[3].ip
    /\ m_in[1].name # m_in[3].name

\* C2: merging the list returned by merge_hosts_by_ip once more returns the
\* same list, field for field and in the same order (SpecMerge).
C2_MergeIdempotent ==
    m_pc = "again" => m_out2 = m_out

\* a merged list of two hosts, one of them folded from two records and
\* carrying ports, has been merged again
C2_Witness ==
    /\ m_pc = "again"
    /\ Len(m_in) = 3
    /\ Len(m_out) = 2
    /\ \E i \in 1..2 : Len(m_out[i].ports) >= 2
    /\ m_out2 = m_out

\* C3: after the merge no host's ports list holds two equal descriptors,
\* for every input list (SpecMerge) and so in every list parse_nmap returns
\* (SpecParse).
C3_NoDuplicatePorts ==
    /\ \A i \in 1..Len(m_out) : NoDuplicates(m_out[i].ports)
    /\ \A i \in 1..Len(p_result) : NoDuplicates(p_result[i].ports)

\* C4: once the accuracy recorded for a host is known, no later step makes
\* it unknown or smaller (SpecMerge: the records of by_ip; SpecOs: the host
\* updated by _maybe_set_os).
C4_AccuracyMonotone ==
    [][ /\ \A i \in 1..Len(by_ip) :
              by_ip[i].val.os_accuracy # NoAcc
                  => /\ by_ip'[i].val.os_accuracy # NoAcc
                     /\ by_ip'[i].val.os_accuracy >= by_ip[i].val.os_accuracy
        /\ o_cur.os_accuracy # NoAcc
              => /\ o_cur'.os_accuracy # NoAcc
                 /\ o_cur'.os_accuracy >= o_cur.os_accuracy ]_vars

AccuracyHasGuess(hs) ==
    \A i \in 1..Len(hs) : hs[i].os_accuracy # NoAcc => hs[i].os_guess # None

\* C5: every record a parser produces, and every record of the merged list
\* parse_nmap returns, has an accuracy only together with a guess (SpecParse).
C5_AccuracyOnlyWithGuess ==
    /\ AccuracyHasGuess(p_hosts)
    /\ AccuracyHasGuess(p_current)
    /\ AccuracyHasGuess(p_result)

CellIndices(kind) == {i \in 1..Len(cells) : cells[i].kind = kind}

\* C6: with the hub enabled, every edge cell is appended before the hub
\* cell and the hub cell before every host cell (SpecDraw).
C6_ZOrder ==
    d_hub =>
        /\ \A e \in CellIndices("edge"), h \in CellIndices("hub") : e < h
        /\ \A h \in CellIndices("hub"), x \in CellIndices("host") : h < x
        /\ \A e \in CellIndices("edge"), x \in CellIndices("host") : e < x

\* the whole document of a call with the hub and at least two hosts
C6_Witness ==
    /\ d_hub
    /\ d_n >= 2
    /\ d_ph > 0
    /\ PhaseOrder[d_ph] = "done"
    /\ Cardinality(CellIndices("edge")) = d_n
    /\ Cardinality(CellIndices("hub")) = 1
    /\ Cardinality(CellIndices("host")) = d_n

\* the candidate replaced guess and accuracy of the host
OsAccepted(before, cand, after) ==
    after = [before EXCEPT !.os_guess = cand[1], !.os_accuracy = cand[2]]

\* C7: the OS-guess update rule, and the agreement of _maybe_set_os with the
\* rule inlined in merge_hosts_by_ip (SpecOs).
C7_OsUpdateRule ==
    o_pc = "set" =>
        /\ o_cand[1] \in {None, ""} => o_cur = o_prev
        /\ o_cand[1] \notin {None, ""} /\ o_prev.os_guess = None
              => OsAccepted(o_prev, o_cand, o_cur)
        /\ o_cand[1] \notin {None, ""} /\ o_prev.os_guess # None
              => IF o_cand[2] # NoAcc
                    /\ (o_prev.os_accuracy = NoAcc
                        \/ o_cand[2] > o_prev.os_accuracy)
                 THEN OsAccepted(o_prev, o_cand, o_cur)
                 ELSE o_cur = o_prev
        /\ o_cand[2] = NoAcc /\ o_prev.os_guess # None => o_cur = o_prev
        /\ o_inl = o_cur

\* a guess of accuracy 80 has been replaced by one of accuracy 95
C7_Witness ==
    /\ o_pc = "set"
    /\ o_prev.os_guess = "Linux"
    /\ o_prev.os_accuracy = 80
    /\ o_cand = <<"Windows", 95>>
    /\ o_cur.os_guess = "Windows"
    /\ o_cur.os_accuracy = 95
    /\ o_inl = o_cur

NoSharedPrefix(ports) ==
    \A i, j \in 1..Len(ports) : i # j => Prefix(ports[i]) # Prefix(ports[j])

C9_FirstSeenOrder ==
    m_pc = "done" =>
        /\ {m_out[i].ip : i \in 1..Len(m_out)} = {m_in[i].ip : i \in 1..Len(m_in)}
        /\ Len(m_out) = Cardinality({m_in[i].ip : i \in 1..Len(m_in)})
        /\ \A i, j \in 1..Len(m_out) :
              i < j => FirstIndex(m_in, m_out[i].ip) < FirstIndex(m_in, m_out[j].ip)

\* the second address occurs first and again after the first address
C9_Witness ==
    /\ m_pc = "done"
    /\ Len(m_in) = 3
    /\ m_in[1].ip = Ip2
    /\ m_in[2].ip = Ip1
    /\ m_in[3].ip = Ip2
    /\ Len(m_out) = 2
    /\ m_out[1].ip = Ip2

\* C10: XML text is parsed by the XML parser only; otherwise the grepable
\* parser's result is returned exactly when some line matches the strict
\* host pattern, and the line-oriented parser's result in every other case
\* (SpecParse).
C10_DispatchByStrictPattern ==
    p_pc = "done" =>
        IF LooksLikeXml(text)
        THEN p_used = "xml" /\ p_result = parse_nmap_xml(text)
        ELSE IF \E i \in 1..Len(text.lines) : GreppableHostMatch(text.lines[i])
             THEN p_used = "grepable" /\ p_result = parse_nmap_grepable(text)
             ELSE p_used = "normal" /\ p_result = parse_nmap_normal(text)

\* the categories a host node can have
HostCategories ==
    {"router", "switch", "firewall", "wireless_ap", "server", "workstation",
     "printer", "ip_phone", "camera", "unknown"}

\* the twelve rules of the classifier in their stated order: when a rule
\* applies to the classified host, and what it then decides
ClassifierRules ==
    LET os(k)    == k \in c_os
        port(p)  == has_port(c_ports, p)
        svc(rx)  == has_service(c_ports, rx)
    IN  << [when |-> os("firewall"), then |-> "firewall"],
           [when |-> os("router") \/ os("cisco ios") \/ os("juniper"),
            then |-> "router"],
           [when |-> os("switch"), then |-> "switch"],
           [when |-> os("wireless") \/ os("access point"),
            then |-> "wireless_ap"],
           [when |-> port(9100) \/ port(631) \/ port(515) \/ svc("printer|ipp"),
            then |-> "printer"],
           [when |-> port(5060) \/ port(5061) \/ svc("\\bsip\\b"),
            then |-> "ip_phone"],
           [when |-> port(554) \/ svc("\\brtsp\\b"), then |-> "camera"],
           [when |-> port(3389) \/ svc("\\brdp\\b"),
            then |-> IF os("server") THEN "server" ELSE "workstation"],
           [when |-> (port(445) \/ svc("\\bsmb\\b"))
                     /\ (os("server") \/ os("windows")),
            then |-> IF os("server") THEN "server" ELSE "workstation"],
           [when |-> os("windows"), then |-> "workstation"],
           [when |-> os("linux") \/ os("unix"), then |-> "server"],
           [when |-> TRUE, then |-> "unknown"] >>

\* C11: infer_device_type returns what the first applicable rule of the
\* twelve decides, for every OS text and port list; the result is a host
\* category, never the hub category, and has an entry in the style table
\* (SpecClassify).
C11_FirstMatchWins ==
    c_pc = "done" =>
        LET first == CHOOSE k \in 1..12 :
                        /\ ClassifierRules[k].when
                        /\ \A j \in 1..(k - 1) : ~ClassifierRules[j].when
        IN  /\ c_type = ClassifierRules[first].then
            /\ c_type \in HostCategories
            /\ c_type # "network"
            /\ c_type \in DOMAIN SHAPES
            /\ style_for_device(c_type) = SHAPES[c_type]

\* a host with an open printing port and a wireless OS text was classified
\* by the OS rule, which comes first
C11_Witness ==
    /\ c_pc = "done"
    /\ c_os = {"wireless"}
    /\ has_port(c_ports, 9100)
    /\ has_port(c_ports, 3389)
    /\ c_type = "wireless_ap"

\* C12: for n >= 1 the node width, node height and both gaps returned by
\* compute_layout are 160, 70, 40, 40 times a factor that is 1.0 up to 30
\* hosts, 0.85 up to 80, 0.7 up to 150 and 0.6 above (SpecLayout; lengths in
\* hundredths).
C12_ScaleSteps ==
    l_pc # "call" /\ l_n >= 1 =>
        LET f == IF l_n <= 30 THEN 100
                 ELSE IF l_n <= 80 THEN 85
                 ELSE IF l_n <= 150 THEN 70
                 ELSE 60
        IN  /\ l_geo[3] = 160 * f
            /\ l_geo[4] = 70 * f
            /\ l_geo[5] = 40 * f
            /\ l_geo[6] = 40 * f

\* the layout of 80 hosts, the last count of the 0.85 tier: 136 by 59.5
C12_Witness ==
    /\ l_pc = "returned"
    /\ l_n = 80
    /\ l_geo[3] = 13600
    /\ l_geo[4] = 5950
    /\ l_geo[5] = 3400

\* C13: for n >= 1 compute_layout returns columns = ceil(sqrt(n)) and
\* rows = ceil(n / columns), so the grid holds all hosts and has no empty
\* row; for n <= 0 it returns the 1x1 grid with the unscaled sizes
\* (SpecLayout).
C13_Grid ==
    l_pc # "call" =>
        IF l_n >= 1
        THEN LET cols == l_geo[1]
                 rows == l_geo[2]
             IN  /\ cols >= 1 /\ rows >= 1
                 /\ cols * cols >= l_n
                 /\ (cols - 1) * (cols - 1) < l_n
                 /\ rows * cols >= l_n
                 /\ (rows - 1) * cols < l_n
        ELSE l_geo = <<1, 1, 16000, 7000, 4000, 4000>>

\* ten hosts are laid out in four columns and three rows
C13_Witness ==
    /\ l_pc = "returned"
    /\ l_n = 10
    /\ l_geo[1] = 4
    /\ l_geo[2] = 3

\* C14 as stated: for 200 hosts the scale factor is 0.6 and, with and
\* without the hub, canvas width and height exceed 850 and 1100, so that
\* pageWidth and pageHeight are the canvas size (SpecLayout).
C14_CanvasExceedsPage ==
    l_pc = "done" /\ l_n = 200 =>
        /\ l_geo[3] = 160 * 60
        /\ l_canvas.width > 850 * 100
        /\ l_canvas.height > 1100 * 100
        /\ l_canvas.pageWidth = Ceil(l_canvas.width)
        /\ l_canvas.pageHeight = Ceil(l_canvas.height)

\* C14 as amended: for 200 hosts the scale factor is 0.6 and the canvas is
\* 1876 wide in both modes; it is 1130 high with the hub, which is the
\* pageHeight, and 1040 high without it, where pageHeight is the floor 1100
\* (SpecLayout).
C14_CanvasOf200 ==
    l_pc = "done" /\ l_n = 200 =>
        /\ l_geo[3] = 160 * 60
        /\ l_canvas.width = 1876 * 100
        /\ l_canvas.pageWidth = 1876
        /\ l_hub => l_canvas.height = 1130 * 100 /\ l_canvas.pageHeight = 1130
        /\ ~l_hub => l_canvas.height = 1040 * 100 /\ l_canvas.pageHeight = 1100

\* the page of 200 hosts without the hub
C14_Witness ==
    /\ l_pc = "done"
    /\ l_n = 200
    /\ ~l_hub
    /\ l_canvas.height < 1100 * 100
    /\ l_canvas.pageHeight = 1100

\* the text has no XML prolog, no line of the grepable host pattern and no
\* host-announcement line
NoGrammar(t) ==
    /\ ~LooksLikeXml(t)
    /\ \A i \in 1..Len(t.lines) : t.lines[i].kind \notin {"ghost", "report"}

\* C15: on a text that matches none of the three grammars parse_nmap
\* returns the empty list, and main then ends with status 2 without building
\* or writing a document (SpecParse).
C15_NoHostsParsed ==
    NoGrammar(text) =>
        /\ p_pc = "done" => p_result = <<>>
        /\ x_pc = "exit" => x_exit = 2 /\ ~x_built /\ ~x_written

\* a "Host:" line that is no host entry sent the text to the grepable
\* parser, which found nothing, then to the line-oriented parser, which
\* dropped the port line; main ended with status 2
C15_Witness ==
    /\ x_pc = "exit"
    /\ Len(text.lines) = 2
    /\ text.lines[1].kind = "hostonly"
    /\ text.lines[2].kind = "port"
    /\ p_used = "normal"
    /\ p_result = <<>>
    /\ x_exit = 2

\* C16: the finished document of N hosts has exactly one branding element
\* and N host nodes; with the hub one hub node and N edges, without it no
\* hub node and no edge; no unfinished document has more (SpecDraw).
C16_ElementCounts ==
    LET count(kind) == Cardinality(CellIndices(kind))
        finished    == d_ph > 0 /\ PhaseOrder[d_ph] = "done"
    IN  /\ count("branding") <= 1
        /\ count("host") <= d_n
        /\ count("hub") <= (IF d_hub THEN 1 ELSE 0)
        /\ count("edge") <= (IF d_hub THEN d_n ELSE 0)
        /\ finished =>
              /\ count("branding") = 1
              /\ count("host") = d_n
              /\ count("hub") = (IF d_hub THEN 1 ELSE 0)
              /\ count("edge") = (IF d_hub THEN d_n ELSE 0)
              /\ Len(cells) = 2 + 1 + d_n + (IF d_hub THEN 1 + d_n ELSE 0)

\* the finished document of three hosts without the hub
C16_Witness ==
    /\ ~d_hub
    /\ d_n = 3
    /\ d_ph > 0
    /\ PhaseOrder[d_ph] = "done"
    /\ Len(cells) = 6
    /\ CellIndices("edge") = {}
    /\ CellIndices("hub") = {}

\* a line that announces a host
IsAnnouncement(line) == line.kind = "report" /\ ~line.indent

\* the announcement lines among the first k lines of the text, in order
Announced(k) == SelectSeq(SubSeq(text.lines, 1, k), IsAnnouncement)

\* the hosts flushed so far followed by the host in progress
RawHosts == p_hosts \o p_current

\* one record per announcement line read so far, in announcement order
OnePerAnnouncement ==
    /\ Len(RawHosts) = Len(Announced(p_i - 1))
    /\ \A j \in 1..Len(RawHosts) :
          /\ RawHosts[j].ip = ReportHost(Announced(p_i - 1)[j]).ip
          /\ RawHosts[j].name = ReportHost(Announced(p_i - 1)[j]).name

\* C17: the line-oriented parser, line by line.  An announcement line
\* flushes the host in progress and starts a new one without ports and OS;
\* any other line leaves the flushed hosts alone, changes nothing before the
\* first announcement, and otherwise changes at most the ports (an open-port
\* line) or the OS fields (an OS line) of the host in progress; the hosts so
\* far are one per announcement line, in order; the end of input flushes the
\* last host, so the returned list has the announced addresses (SpecParse).
C17_NormalParserSteps ==
    [][ /\ p_pc = "normal" /\ p_pc' = "normal" /\ p_i' = p_i + 1 =>
              LET line == text.lines[p_i]
              IN  /\ OnePerAnnouncement'
                  /\ IsAnnouncement(line) =>
                        /\ p_hosts' = p_hosts \o p_current
                        /\ Len(p_current') = 1
                        /\ p_current'[1].ports = <<>>
                        /\ p_current'[1].os_guess = None
                        /\ p_current'[1].os_accuracy = NoAcc
                  /\ ~IsAnnouncement(line) =>
                        /\ p_hosts' = p_hosts
                        /\ p_current = <<>> => p_current' = <<>>
                        /\ p_current # <<>> =>
                              /\ Len(p_current') = 1
                              /\ p_current'[1].ip = p_current[1].ip
                              /\ p_current'[1].name = p_current[1].name
                              /\ IF line.kind = "port" /\ ~line.indent
                                 THEN /\ Len(p_current'[1].ports)
                                            = Len(p_current[1].ports) + 1
                                      /\ SubSeq(p_current'[1].ports, 1,
                                                Len(p_current[1].ports))
                                            = p_current[1].ports
                                      /\ p_current'[1].os_guess
                                            = p_current[1].os_guess
                                 ELSE p_current'[1].ports = p_current[1].ports
                              /\ line.kind \notin
                                    {"osguesses", "osdetails", "running",
                                     "serviceinfo"}
                                    => /\ p_current'[1].os_guess
                                            = p_current[1].os_guess
                                       /\ p_current'[1].os_accuracy
                                            = p_current[1].os_accuracy
        /\ p_pc = "normal" /\ p_pc' = "done" =>
              /\ {p_result'[j].ip : j \in 1..Len(p_result')}
                    = {ReportHost(Announced(Len(text.lines))[j]).ip :
                          j \in 1..Len(Announced(Len(text.lines)))}
              /\ Len(RawHosts) = Len(Announced(Len(text.lines)))
      ]_vars

\* two announcements with an open-port line between them: the first host
\* has been flushed with its port, the second is in progress
C17_Witness ==
    /\ p_pc = "normal"
    /\ p_i = 4
    /\ text.lines[1].kind = "report"
    /\ text.lines[2].kind = "port"
    /\ text.lines[3].kind = "report"
    /\ Len(p_hosts) = 1
    /\ Len(p_hosts[1].ports) = 1
    /\ Len(p_current) = 1
    /\ p_current[1].ports = <<>>

\* the elements of s that are not in the set seen, each once, in the order
\* of their first occurrence
RECURSIVE NewInOrder(_, _)
NewInOrder(s, seen) ==
    IF s = <<>> THEN <<>>
    ELSE IF Head(s) \in seen THEN NewInOrder(Tail(s), seen)
    ELSE <<Head(s)>> \o NewInOrder(Tail(s), seen \cup {Head(s)})

\* C18: a later occurrence of an address leaves the ports the canonical
\* record has in place and appends, in arrival order, exactly the incoming
\* descriptors of which no equal one is in the list yet; the descriptors of
\* a canonical record are those of all input records with its address
\* (SpecMerge).
C18_MergePorts ==
    [][ m_pc = "loop" /\ Len(m_in') = Len(m_in) + 1 =>
          LET h == m_in'[Len(m_in')]
          IN  /\ \A i \in 1..Len(by_ip) :
                    LET old == by_ip[i].val.ports
                        new == by_ip'[i].val.ports
                    IN  /\ by_ip'[i].key = by_ip[i].key
                        /\ IF by_ip[i].key = MergeKey(h)
                           THEN new = old \o NewInOrder(h.ports, Range(old))
                           ELSE new = old
              /\ \A i \in 1..Len(by_ip') :
                    Range(by_ip'[i].val.ports)
                        = UNION {Range(m_in'[j].ports) :
                                    j \in {k \in 1..Len(m_in') :
                                              MergeKey(m_in'[k]) = by_ip'[i].key}}
      ]_vars

\* a record with two descriptors met a canonical record that had one of
\* them: the other one was appended behind it
C18_Witness ==
    /\ m_pc = "loop"
    /\ Len(m_in) = 2
    /\ m_in[1].ip = m_in[2].ip
    /\ m_in[1].ports = <<P_http>>
    /\ m_in[2].ports = <<P_apache, P_http>>
    /\ Len(by_ip) = 1
    /\ by_ip[1].val.ports = <<P_http, P_apache>>

\* C19: during and after merge_hosts_by_ip every record of the argument has
\* the value it had at the call, the argument list holds the same objects,
\* and no canonical record is an argument object or shares its ports list
\* with one (SpecHeapMerge).
C19_InputUnchanged ==
    /\ Len(hp_in) = Len(hp_vals)
    /\ \A i \in 1..Len(hp_in) : HeapValue(hp_in[i]) = hp_vals[i]
    /\ \A d \in 1..Len(hp_dict), i \in 1..Len(hp_in) :
          /\ hp_dict[d].ref # hp_in[i]
          /\ hp_objs[hp_dict[d].ref].ports # hp_objs[hp_in[i]].ports

\* a bare record seeded the canonical record, which then took the name, the
\* OS guess and the port of a second record and the better guess and the
\* port of a third
C19_Witness ==
    /\ hp_pc = "done"
    /\ Len(hp_in) = 3
    /\ Len(hp_out) = 1
    /\ hp_vals[1] = Host(Ip1, None, <<>>, None, NoAcc)
    /\ HeapValue(hp_out[1]) = Host(Ip1, "web", <<P_http, P_apache>>, "Windows", 95)
    /\ HeapValue(hp_in[1]) = hp_vals[1]

\* the accuracy of a candidate as a number; a missing or unparsable
\* attribute counts 0
CandidateAccuracy(m) ==
    CASE m.accuracy = "80" -> 80
      [] m.accuracy = "92" -> 92
      [] OTHER             -> 0

\* C20: when the XML parser records a host whose OS element has candidates,
\* the recorded accuracy and guess are those of the first candidate, in
\* document order, of the highest accuracy (an empty name is recorded as
\* absent); of the candidates (Linux, 80) and (Windows, 92) it records
\* (Windows, 92) (SpecParse).
C20_XmlBestOsMatch ==
    [][ /\ p_pc = "xml"
        /\ p_i' = p_i + 1
        /\ Len(p_hosts') = Len(p_hosts) + 1
        /\ text.doc[p_i].osmatches # <<>>
        => LET ms   == text.doc[p_i].osmatches
               best == CHOOSE k \in 1..Len(ms) :
                          /\ \A j \in 1..Len(ms) :
                                CandidateAccuracy(ms[j]) <= CandidateAccuracy(ms[k])
                          /\ \A j \in 1..(k - 1) :
                                CandidateAccuracy(ms[j]) < CandidateAccuracy(ms[k])
               rec  == p_hosts'[Len(p_hosts')]
           IN  /\ rec.os_accuracy = CandidateAccuracy(ms[best])
               /\ rec.os_guess = (IF ms[best].name = "" THEN None
                                  ELSE ms[best].name)
               /\ ms = <<OsMatch("Linux", "80"), OsMatch("Windows", "92")>>
                     => rec.os_guess = "Windows" /\ rec.os_accuracy = 92
      ]_vars

\* a host with the candidates (Linux, 80) and (Windows, 92) was recorded
\* after a host whose two candidates both count 0, of which the first was
\* taken
C20_Witness ==
    /\ p_pc = "xml"
    /\ p_i = 3
    /\ Len(p_hosts) = 2
    /\ Len(text.doc[1].osmatches) = 2
    /\ text.doc[1].osmatches[1].accuracy = "abc"
    /\ p_hosts[1].os_guess = "Linux"
    /\ p_hosts[1].os_accuracy = 0
    /\ text.doc[2].osmatches
          = <<OsMatch("Linux", "80"), OsMatch("Windows", "92")>>
    /\ p_hosts[2].os_guess = "Windows"
    /\ p_hosts[2].os_accuracy = 92

\* the k-th cell of a kind in emission order, k counted from 0
NthCell(kind, k) ==
    cells[CHOOSE i \in CellIndices(kind) :
             Cardinality({j \in CellIndices(kind) : j < i}) = k]

\* C21: the identifiers come from one increasing counter in the order
\* branding, hub, hosts in list order, edges; the identifier strings of the
\* cells of a document, the root cells "0" and "1" included, are pairwise
\* distinct; in the finished document edge i has the hub's identifier as
\* source and the identifier of the i-th host node as target, and both are
\* identifiers of cells of the document (SpecDraw).
C21_Identifiers ==
    d_ph > 0 =>
        /\ \A i, j \in 1..Len(cells) : i # j => Str(cells[i].id) # Str(cells[j].id)
        /\ 1 < branding_id
        /\ d_hub => branding_id < network_id /\ network_id < host_id_map[0]
        /\ ~d_hub => branding_id < host_id_map[0]
        /\ \A i \in 0..(d_n - 2) : host_id_map[i] < host_id_map[i + 1]
        /\ \A e \in CellIndices("edge") :
              /\ cells[e].id > host_id_map[d_n - 1]
              /\ \A f \in CellIndices("edge") : e < f => cells[e].id < cells[f].id
        /\ \A k \in 0..(Cardinality(CellIndices("edge")) - 1) :
              /\ NthCell("edge", k).source = network_id
              /\ NthCell("edge", k).target = host_id_map[k]
        /\ \A k \in 0..(Cardinality(CellIndices("host")) - 1) :
              NthCell("host", k).id = host_id_map[k]
        /\ \A h \in CellIndices("hub") : cells[h].id = network_id
        /\ \A b \in CellIndices("branding") : cells[b].id = branding_id
        /\ PhaseOrder[d_ph] = "done" =>
              \A e \in CellIndices("edge") :
                  /\ \E h \in CellIndices("hub") : cells[h].id = cells[e].source
                  /\ \E x \in CellIndices("host") : cells[x].id = cells[e].target

\* the finished document of two hosts with the hub: the cells are emitted
\* with the identifiers 0, 1, then the edges 6 and 7, branding 2, hub 3 and
\* the hosts 4 and 5
C21_Witness ==
    /\ d_hub
    /\ d_n = 2
    /\ d_ph > 0
    /\ PhaseOrder[d_ph] = "done"
    /\ [i \in 1..Len(cells) |-> cells[i].id] = <<0, 1, 6, 7, 2, 3, 4, 5>>
    /\ cells[3].source = 3
    /\ cells[4].target = 5

\* two rectangles given by left, top, width and height have no common point
\* inside
Apart(x1, y1, w1, h1, x2, y2, w2, h2) ==
    \/ x1 + w1 <= x2
    \/ x2 + w2 <= x1
    \/ y1 + h1 <= y2
    \/ y2 + h2 <= y1

\* C22: for every host count n >= 1, with and without the hub, host i is
\* placed at row i div columns and column i mod columns of the grid; no two
\* hosts have the same position, no two host rectangles overlap, as
\* computed and as written with coordinates and sizes truncated to
\* integers; every host rectangle lies inside the canvas width and height
\* and, with the hub, below the hub node (SpecLayout; computed lengths in
\* hundredths).
C22_HostPlacement ==
    l_pc = "placed" =>
        LET cols == l_geo[1]
            H == 0..(l_n - 1)
        IN  /\ DOMAIN l_place = H
            /\ \A i \in H :
                  LET p == l_place[i]
                  IN  /\ p.fx = margin * 100 + (i % cols) * (l_geo[3] + l_geo[5])
                      /\ p.fy = start_y(l_hub) * 100
                                + (i \div cols) * (l_geo[4] + l_geo[6])
                      /\ p.x * 100 <= p.fx /\ p.fx < (p.x + 1) * 100
                      /\ p.y * 100 <= p.fy /\ p.fy < (p.y + 1) * 100
                      /\ p.width * 100 <= l_geo[3] /\ l_geo[3] < (p.width + 1) * 100
                      /\ p.height * 100 <= l_geo[4] /\ l_geo[4] < (p.height + 1) * 100
                      /\ p.fx >= 0 /\ p.fy >= 0
                      /\ p.fx + p.fw <= l_canvas.width
                      /\ p.fy + p.fh <= l_canvas.height
                      /\ (p.x + p.width) * 100 <= l_canvas.width
                      /\ (p.y + p.height) * 100 <= l_canvas.height
                      /\ l_hub => /\ p.y >= l_hubgeo[1].y + l_hubgeo[1].height
                                  /\ p.fy >= (l_hubgeo[1].y + l_hubgeo[1].height) * 100
            /\ \A i, j \in H :
                  i < j =>
                      LET p == l_place[i]
                          q == l_place[j]
                      IN  /\ <<p.x, p.y>> # <<q.x, q.y>>
                          /\ <<p.fx, p.fy>> # <<q.fx, q.fy>>
                          /\ Apart(p.fx, p.fy, p.fw, p.fh, q.fx, q.fy, q.fw, q.fh)
                          /\ Apart(p.x, p.y, p.width, p.height,
                                   q.x, q.y, q.width, q.height)

\* 40 hosts with the hub: nodes of 136 by 59.5 written as 136 by 59, the
\* eighth host in the second row at y = 273.5, written as 273
C22_Witness ==
    /\ l_pc = "placed"
    /\ l_n = 40
    /\ l_hub
    /\ l_geo[1] = 7
    /\ l_place[7].fy = 27350
    /\ l_place[7].x = 50
    /\ l_place[7].y = 273
    /\ l_place[7].height = 59
    /\ l_place[6].x = 1070
    /\ l_place[6].y = 180
    /\ l_hubgeo = <<[x |-> 583, y |-> 50, width |-> 90, height |-> 60]>>

====
